---- MODULE Spec2Model ----
(***************************************************************************)
(* The scheduling-and-broadcast kernel of MCAgents: Module (the            *)
(* setInterval version of src/src/agent/modules/module.ts, lines 1-160)    *)
(* and CognitiveController (src/src/agent/cognitive_controller.ts, lines   *)
(* 1-241), on a single-threaded event loop.                                *)
(*                                                                         *)
(* One action is one run-to-completion piece of JavaScript: a public call  *)
(* made by the embedding program, a timer callback, or the continuation of *)
(* an await.  Time is counted in milliseconds of the event loop's clock.   *)
(***************************************************************************)
EXTENDS Integers, Sequences, FiniteSets, TLC

\* ---------------------------------------------------------------- bounds
NumModules == 3        \* module objects a program may construct
MaxCalls == 4          \* Module.start / Module.stop calls on one module
MaxFires == 4          \* setInterval callbacks of one module
PairCalls == 3         \* the same two budgets for a pair of modules
PairFires == 3
MaxIdle == 1           \* clock instants reached by idling (no event due)
MaxCCCalls == 3        \* CognitiveController.start / stop calls
MaxDecisions == 2      \* decisions made in one behaviour
\* the same budgets where the controller and the modules run together
AgentCalls == 2
AgentFires == 2         \* setInterval callbacks in one agent behaviour
AgentCCCalls == 1
WireCalls == 2
WireFires == 1
WireCCCalls == 1
WireRegs == 1
MaxRegs == 1
RegCCCalls == 1
MaxItems == 1          \* entries of relevantMemories / actionFeedback
MaxLen == 5            \* tokens of an LLM response

Modules == 1..NumModules

\* ------------------------------------------------------ configuration
\* `null` / `undefined` of the source.
Null == 0

Names == {"skill_execution", "memory", "invalid"}

\* config.modules of two configurations, reduced to what the Module
\* constructor reads: an entry is its update_interval (100 and 200 as in
\* part_003:39 and part_003:184), Null when the entry is absent (as in
\* part_003:65).
Configs ==
  << [n \in Names |-> IF n = "skill_execution" THEN 100 ELSE Null],
     [n \in Names |-> IF n = "memory" THEN 200 ELSE Null] >>

\* config.modules.cognitive_controller.update_interval of the controller's
\* test configuration, and the factor of its setTimeout.
CCUpdateInterval == 100
SecToMs == 1000

VARIABLES
  \* Module fields
  constructed,      \* constructed[m]: the constructor of m has returned
  name,             \* _name
  config,           \* _config (index into Configs)
  updateInterval,   \* _updateInterval
  running,          \* _running
  stopPromise,      \* _stopPromise (promise id, Null before the first start)
  stopResolve,      \* _stopResolve (id of the promise it resolves)
  intervalId,       \* _intervalId (timer id or Null)
  cognitiveController, \* _cognitiveController is set
  shouldThrowError, \* update() throws (TestModule, part_003:16)
  \* CognitiveController fields and AgentState.decisions
  modules,          \* _modules, the registry
  ccRunning,        \* _running
  decisions,        \* _agentState.decisions
  loops,            \* the live invocations of CognitiveController._moduleLoop
  \* event loop
  now,              \* the clock, in milliseconds
  timers,           \* timers[m]: armed setInterval timers, [id, due]
  resolved,         \* resolved[m]: ids of the stop promises already resolved
  stopWaiters,      \* stopWaiters[m]: promises that a stop() call awaits
  inflight,         \* inflight[m]: update() calls begun and not yet settled
  \* observations
  updateCount,      \* update() calls begun
  errorCount,       \* logger.error calls of Module._moduleLoop
  startWarns,       \* logger.warn calls of Module.start
  stopWarns,        \* logger.warn calls of Module.stop
  ccStartWarns,     \* console.warn calls of CognitiveController.start
  ccStopWarns,      \* console.warn calls of CognitiveController.stop
  startedAt,        \* clock value of the last effective start()
  wantRunning,      \* the last call on m was start() (TRUE) or stop() (FALSE)
  stopDone,         \* a stop() of a Running module resolved, no start() since
  updatesAtStop,    \* updateCount when that stop() resolved
  ctorThrew,        \* the last constructor call for slot m threw
  \* calls of the controller's two pure helpers, as its tests make them
  testState,        \* the AgentState: the controller's _agentState, and the
                    \* object passed to _createBottleneckedState
  bottleneckedState, \* what that call returned, Absent before the call
  response,         \* the text passed to _parseDecisionResponse
  parsed,           \* what that call returned and logged, Absent before
  \* budgets of the environment
  agent,            \* the Agent: _running, the position of its stop(), and
                    \* whether a stop() of the running Agent has resolved
  population, callsLeft, firesLeft, idleLeft, ccCallsLeft, regsLeft

modVars == <<constructed, name, config, updateInterval, running, stopPromise,
             stopResolve, intervalId, shouldThrowError, timers, resolved,
             stopWaiters, inflight, updateCount, errorCount, startWarns,
             stopWarns, startedAt, wantRunning, stopDone, updatesAtStop,
             ctorThrew>>
ccVars == <<cognitiveController, modules, ccRunning, decisions, loops,
            ccStartWarns, ccStopWarns>>
envVars == <<agent, population, callsLeft, firesLeft, idleLeft, ccCallsLeft, regsLeft>>
pureVars == <<testState, bottleneckedState, response, parsed>>

vars == <<modVars, ccVars, now, envVars, pureVars>>

\* --------------------------------------------------- optional values
\* A property that may be missing is the set of its values: empty when the
\* property is undefined, a singleton otherwise.
Absent == {}
Present(v) == {v}
Opt(S) == {Absent} \cup {Present(v) : v \in S}
Value(o) == CHOOSE v \in o : TRUE

\* JavaScript `o || d` for an object-valued property o.
OrElse(o, d) == IF o = Absent THEN d ELSE Value(o)

\* An Agent as its constructor leaves it.
AgentIdle == [running |-> FALSE, pc |-> "idle", stopDone |-> FALSE]

\* A microtask is queued: the continuation of an await on a resolved promise.
\* The event loop drains microtasks before it runs any other task.
MicrotaskPending ==
  \/ agent.pc = "stopping"
  \/ \E m \in Modules : stopWaiters[m] \cap resolved[m] # {}
  \/ \E i \in 1..Len(loops) : loops[i].pc \in {"decided", "broadcast"}

\* The constructor without its assert: an absent entry is read as undefined.
ConstructNoAssert(m, n, c, e) ==
  /\ ~constructed[m]
  /\ m <= population
  /\ \A k \in Modules : k < m => constructed[k]
  /\ ~MicrotaskPending
  /\ constructed' = [constructed EXCEPT ![m] = TRUE]
  /\ name' = [name EXCEPT ![m] = n]
  /\ config' = [config EXCEPT ![m] = c]
  /\ updateInterval' = [updateInterval EXCEPT ![m] = Configs[c][n]]
  /\ shouldThrowError' = [shouldThrowError EXCEPT ![m] = e]
  /\ ctorThrew' = [ctorThrew EXCEPT ![m] = FALSE]
  /\ UNCHANGED <<running, stopPromise, stopResolve, intervalId, timers,
                 resolved, stopWaiters, inflight, updateCount, errorCount,
                 startWarns, stopWarns, startedAt, wantRunning, stopDone,
                 updatesAtStop, ccVars, now, envVars, pureVars>>

\* --------------------------------------------------- Module.constructor
\* new TestModule(n, Configs[c], agentState), with shouldThrowError set to e.
Construct(m, n, c, e) ==
  /\ ~constructed[m]
  /\ m <= population
  /\ \A k \in Modules : k < m => constructed[k]
  /\ ~MicrotaskPending
  /\ IF Configs[c][n] = Null
       THEN \* assert(config.modules[name]) throws: no object is produced
            /\ ctorThrew' = [ctorThrew EXCEPT ![m] = TRUE]
            /\ UNCHANGED <<constructed, name, config, updateInterval,
                           shouldThrowError>>
       ELSE /\ constructed' = [constructed EXCEPT ![m] = TRUE]
            /\ name' = [name EXCEPT ![m] = n]
            /\ config' = [config EXCEPT ![m] = c]
            /\ updateInterval' = [updateInterval EXCEPT ![m] = Configs[c][n]]
            /\ shouldThrowError' = [shouldThrowError EXCEPT ![m] = e]
            /\ ctorThrew' = [ctorThrew EXCEPT ![m] = FALSE]
  /\ UNCHANGED <<running, stopPromise, stopResolve, intervalId, timers,
                 resolved, stopWaiters, inflight, updateCount, errorCount,
                 startWarns, stopWarns, startedAt, wantRunning, stopDone,
                 updatesAtStop, ccVars, now, envVars, pureVars>>

\* start() without its `if (this._running)` guard: every call arms a timer.
StartNoGuard(m) ==
  /\ constructed[m]
  /\ callsLeft > 0
  /\ ~MicrotaskPending
  /\ callsLeft' = callsLeft - 1
  /\ wantRunning' = [wantRunning EXCEPT ![m] = TRUE]
  /\ LET id == stopPromise[m] + 1 IN
       /\ running' = [running EXCEPT ![m] = TRUE]
       /\ stopPromise' = [stopPromise EXCEPT ![m] = id]
       /\ stopResolve' = [stopResolve EXCEPT ![m] = id]
       /\ intervalId' = [intervalId EXCEPT ![m] = id]
       /\ timers' = [timers EXCEPT ![m] =
            @ \cup {[id |-> id, due |-> now + updateInterval[m]]}]
       /\ startedAt' = [startedAt EXCEPT ![m] = now]
       /\ stopDone' = [stopDone EXCEPT ![m] = FALSE]
       /\ updatesAtStop' = [updatesAtStop EXCEPT ![m] = 0]
  /\ UNCHANGED <<constructed, name, config, updateInterval, shouldThrowError,
                 ctorThrew, resolved, stopWaiters, inflight, updateCount,
                 errorCount, startWarns, stopWarns, ccVars, now, pureVars,
                 agent, population,
                 firesLeft, idleLeft, ccCallsLeft, regsLeft>>

\* ---------------------------------------------------------- Module.start
Start(m) ==
  /\ constructed[m]
  /\ callsLeft > 0
  /\ ~MicrotaskPending
  /\ callsLeft' = callsLeft - 1
  /\ wantRunning' = [wantRunning EXCEPT ![m] = TRUE]
  /\ IF running[m]
       THEN /\ startWarns' = [startWarns EXCEPT ![m] = @ + 1]
            /\ UNCHANGED <<running, stopPromise, stopResolve, intervalId,
                           timers, startedAt, stopDone, updatesAtStop>>
       ELSE LET id == stopPromise[m] + 1 IN
            /\ running' = [running EXCEPT ![m] = TRUE]
            /\ stopPromise' = [stopPromise EXCEPT ![m] = id]
            /\ stopResolve' = [stopResolve EXCEPT ![m] = id]
            /\ intervalId' = [intervalId EXCEPT ![m] = id]
            /\ timers' = [timers EXCEPT ![m] =
                 @ \cup {[id |-> id, due |-> now + updateInterval[m]]}]
            /\ startedAt' = [startedAt EXCEPT ![m] = now]
            /\ stopDone' = [stopDone EXCEPT ![m] = FALSE]
            /\ updatesAtStop' = [updatesAtStop EXCEPT ![m] = 0]
            /\ UNCHANGED startWarns
  /\ UNCHANGED <<constructed, name, config, updateInterval, shouldThrowError,
                 ctorThrew, resolved, stopWaiters, inflight, updateCount,
                 errorCount, stopWarns, ccVars, now, pureVars,
                 agent, population, firesLeft,
                 idleLeft, ccCallsLeft, regsLeft>>

\* stop() without its `if (!this._running)` guard: every call awaits the
\* stop promise.
StopNoGuard(m) ==
  /\ constructed[m]
  /\ callsLeft > 0
  /\ ~MicrotaskPending
  /\ callsLeft' = callsLeft - 1
  /\ wantRunning' = [wantRunning EXCEPT ![m] = FALSE]
  /\ running' = [running EXCEPT ![m] = FALSE]
  /\ stopWaiters' = [stopWaiters EXCEPT ![m] = @ \cup {stopPromise[m]}]
  /\ UNCHANGED <<constructed, name, config, updateInterval, shouldThrowError,
                 ctorThrew, stopPromise, stopResolve, intervalId, timers,
                 resolved, inflight, updateCount, errorCount, startWarns,
                 stopWarns, startedAt, stopDone, updatesAtStop, ccVars, now,
                 pureVars, agent, population, firesLeft, idleLeft, ccCallsLeft, regsLeft>>

\* ----------------------------------------------------------- Module.stop
\* The synchronous part, up to `await this._stopPromise`.
Stop(m) ==
  /\ constructed[m]
  /\ callsLeft > 0
  /\ ~MicrotaskPending
  /\ callsLeft' = callsLeft - 1
  /\ wantRunning' = [wantRunning EXCEPT ![m] = FALSE]
  /\ IF ~running[m]
       THEN /\ stopWarns' = [stopWarns EXCEPT ![m] = @ + 1]
            /\ UNCHANGED <<running, stopWaiters>>
       ELSE /\ running' = [running EXCEPT ![m] = FALSE]
            /\ stopWaiters' = [stopWaiters EXCEPT ![m] = @ \cup {stopPromise[m]}]
            /\ UNCHANGED stopWarns
  /\ UNCHANGED <<constructed, name, config, updateInterval, shouldThrowError,
                 ctorThrew, stopPromise, stopResolve, intervalId, timers,
                 resolved, inflight, updateCount, errorCount, startWarns,
                 startedAt, stopDone, updatesAtStop, ccVars, now, pureVars,
                 agent, population,
                 firesLeft, idleLeft, ccCallsLeft, regsLeft>>

\* The continuation of `await this._stopPromise`: stop() resolves.
StopResume(m) ==
  /\ \E p \in stopWaiters[m] \cap resolved[m] :
       stopWaiters' = [stopWaiters EXCEPT ![m] = @ \ {p}]
  /\ stopDone' = [stopDone EXCEPT ![m] = TRUE]
  /\ updatesAtStop' = [updatesAtStop EXCEPT ![m] = updateCount[m]]
  /\ UNCHANGED <<constructed, name, config, updateInterval, shouldThrowError,
                 ctorThrew, running, stopPromise, stopResolve, intervalId,
                 timers, resolved, inflight, updateCount, errorCount,
                 startWarns, stopWarns, startedAt, wantRunning, ccVars, now,
                 envVars, pureVars>>

\* A timer that is re-armed two intervals after its due time.
RearmDrift(m, t) == [id |-> t.id, due |-> t.due + 2 * updateInterval[m]]

\* _moduleLoop without the `return` of its stopped branch: the callback
\* resolves the stop promise and goes on to call update().
ModuleLoopNoReturn(m, t) ==
  /\ t \in timers[m]
  /\ t.due = now
  /\ firesLeft > 0
  /\ ~MicrotaskPending
  /\ firesLeft' = firesLeft - 1
  /\ IF ~running[m]
       THEN /\ timers' = [timers EXCEPT ![m] =
                 {IF u = t THEN [id |-> t.id, due |-> t.due + updateInterval[m]]
                  ELSE u : u \in {v \in @ : v.id # intervalId[m]}}]
            /\ intervalId' = [intervalId EXCEPT ![m] = Null]
            /\ resolved' = [resolved EXCEPT ![m] = @ \cup {stopResolve[m]}]
       ELSE /\ timers' = [timers EXCEPT ![m] = (@ \ {t}) \cup
                 {[id |-> t.id, due |-> t.due + updateInterval[m]]}]
            /\ UNCHANGED <<intervalId, resolved>>
  /\ updateCount' = [updateCount EXCEPT ![m] = @ + 1]
  /\ inflight' = [inflight EXCEPT ![m] = @ + 1]
  /\ UNCHANGED <<constructed, name, config, updateInterval, shouldThrowError,
                 ctorThrew, running, stopPromise, stopResolve, stopWaiters,
                 errorCount, startWarns, stopWarns, startedAt, wantRunning,
                 stopDone, updatesAtStop, ccVars, now, pureVars,
                 agent, population, callsLeft,
                 idleLeft, ccCallsLeft, regsLeft>>

\* update() whose thrown error ends the module's loop instead of being
\* caught.
UpdateEndStopsOnError(m) ==
  /\ inflight[m] > 0
  /\ inflight' = [inflight EXCEPT ![m] = @ - 1]
  /\ IF shouldThrowError[m]
       THEN /\ errorCount' = [errorCount EXCEPT ![m] = @ + 1]
            /\ running' = [running EXCEPT ![m] = FALSE]
       ELSE UNCHANGED <<errorCount, running>>
  /\ UNCHANGED <<constructed, name, config, updateInterval, shouldThrowError,
                 ctorThrew, stopPromise, stopResolve, intervalId,
                 timers, resolved, stopWaiters, updateCount, startWarns,
                 stopWarns, startedAt, wantRunning, stopDone, updatesAtStop,
                 ccVars, now, envVars, pureVars>>

\* A timer callback whose stopped branch resolves the stop promise without
\* clearInterval: the interval stays armed.
ModuleLoopNoClear(m, t) ==
  /\ t \in timers[m]
  /\ t.due = now
  /\ firesLeft > 0
  /\ ~MicrotaskPending
  /\ firesLeft' = firesLeft - 1
  /\ timers' = [timers EXCEPT ![m] = (@ \ {t}) \cup
       {[id |-> t.id, due |-> t.due + updateInterval[m]]}]
  /\ IF ~running[m]
       THEN /\ resolved' = [resolved EXCEPT ![m] = @ \cup {stopResolve[m]}]
            /\ UNCHANGED <<intervalId, updateCount, inflight>>
       ELSE /\ updateCount' = [updateCount EXCEPT ![m] = @ + 1]
            /\ inflight' = [inflight EXCEPT ![m] = @ + 1]
            /\ UNCHANGED <<intervalId, resolved>>
  /\ UNCHANGED <<constructed, name, config, updateInterval, shouldThrowError,
                 ctorThrew, running, stopPromise, stopResolve, stopWaiters,
                 errorCount, startWarns, stopWarns, startedAt, wantRunning,
                 stopDone, updatesAtStop, ccVars, now, pureVars,
                 agent, population, callsLeft,
                 idleLeft, ccCallsLeft, regsLeft>>

\* A timer callback that shares one busy flag with every other module: a
\* tick that falls due while another module's update() is unsettled is
\* skipped.
ModuleLoopSerialized(m, t) ==
  /\ t \in timers[m]
  /\ t.due = now
  /\ firesLeft > 0
  /\ ~MicrotaskPending
  /\ firesLeft' = firesLeft - 1
  /\ IF ~running[m]
       THEN /\ timers' = [timers EXCEPT ![m] =
                 {IF u = t THEN [id |-> t.id, due |-> t.due + updateInterval[m]]
                  ELSE u : u \in {v \in @ : v.id # intervalId[m]}}]
            /\ intervalId' = [intervalId EXCEPT ![m] = Null]
            /\ resolved' = [resolved EXCEPT ![m] = @ \cup {stopResolve[m]}]
            /\ UNCHANGED <<updateCount, inflight>>
       ELSE /\ timers' = [timers EXCEPT ![m] = (@ \ {t}) \cup
                 {[id |-> t.id, due |-> t.due + updateInterval[m]]}]
            /\ IF \E k \in Modules \ {m} : inflight[k] > 0
                 THEN UNCHANGED <<updateCount, inflight>>
                 ELSE /\ updateCount' = [updateCount EXCEPT ![m] = @ + 1]
                      /\ inflight' = [inflight EXCEPT ![m] = @ + 1]
            /\ UNCHANGED <<intervalId, resolved>>
  /\ UNCHANGED <<constructed, name, config, updateInterval, shouldThrowError,
                 ctorThrew, running, stopPromise, stopResolve, stopWaiters,
                 errorCount, startWarns, stopWarns, startedAt, wantRunning,
                 stopDone, updatesAtStop, ccVars, now, pureVars,
                 agent, population, callsLeft,
                 idleLeft, ccCallsLeft, regsLeft>>

\* ---------------------------------------------------- Module._moduleLoop
\* setInterval re-arms timer t one interval later unless the callback
\* clears it.
Rearm(m, t) == [id |-> t.id, due |-> t.due + updateInterval[m]]

\* The callback of timer t of module m, up to `await this.update()`.
ModuleLoop(m, t) ==
  /\ t \in timers[m]
  /\ t.due = now
  /\ firesLeft > 0
  /\ ~MicrotaskPending
  /\ firesLeft' = firesLeft - 1
  /\ IF ~running[m]
       THEN \* clearInterval(this._intervalId); this._stopResolve()
            /\ timers' = [timers EXCEPT ![m] =
                 {IF u = t THEN Rearm(m, t) ELSE u :
                    u \in {v \in @ : v.id # intervalId[m]}}]
            /\ intervalId' = [intervalId EXCEPT ![m] = Null]
            /\ resolved' = [resolved EXCEPT ![m] = @ \cup {stopResolve[m]}]
            /\ UNCHANGED <<updateCount, inflight>>
       ELSE \* this.update() is called
            /\ timers' = [timers EXCEPT ![m] = (@ \ {t}) \cup {Rearm(m, t)}]
            /\ updateCount' = [updateCount EXCEPT ![m] = @ + 1]
            /\ inflight' = [inflight EXCEPT ![m] = @ + 1]
            /\ UNCHANGED <<intervalId, resolved>>
  /\ UNCHANGED <<constructed, name, config, updateInterval, shouldThrowError,
                 ctorThrew, running, stopPromise, stopResolve, stopWaiters,
                 errorCount, startWarns, stopWarns, startedAt, wantRunning,
                 stopDone, updatesAtStop, ccVars, now, pureVars,
                 agent, population, callsLeft,
                 idleLeft, ccCallsLeft, regsLeft>>

\* update() settles: it returns, or it throws and the catch block logs.
UpdateEnd(m) ==
  /\ inflight[m] > 0
  /\ inflight' = [inflight EXCEPT ![m] = @ - 1]
  /\ IF shouldThrowError[m]
       THEN errorCount' = [errorCount EXCEPT ![m] = @ + 1]
       ELSE UNCHANGED errorCount
  /\ UNCHANGED <<constructed, name, config, updateInterval, shouldThrowError,
                 ctorThrew, running, stopPromise, stopResolve, intervalId,
                 timers, resolved, stopWaiters, updateCount, startWarns,
                 stopWarns, startedAt, wantRunning, stopDone, updatesAtStop,
                 ccVars, now, envVars, pureVars>>

\* ------------------------------------ CognitiveController.registerModules
Range(s) == {s[i] : i \in 1..Len(s)}

\* The arrays of distinct constructed modules a caller can pass.
Registries ==
  {s \in UNION {[1..k -> {m \in Modules : constructed[m]}] : k \in 0..NumModules} :
     \A i, j \in 1..Len(s) : i # j => s[i] # s[j]}

\* A registration that merges: the array is appended to the registry.
RegisterModulesAppend(ms) ==
  /\ regsLeft > 0
  /\ ~MicrotaskPending
  /\ regsLeft' = regsLeft - 1
  /\ modules' = modules \o ms
  /\ cognitiveController' =
       [m \in Modules |-> cognitiveController[m] \/ m \in Range(ms)]
  /\ UNCHANGED <<modVars, ccRunning, decisions, loops, ccStartWarns,
                 ccStopWarns, now,
                 pureVars, agent, population, callsLeft, firesLeft, idleLeft, ccCallsLeft>>

\* A registration that also resets the modules it registers: each one's
\* running flag is cleared.
RegisterModulesRestart(ms) ==
  /\ regsLeft > 0
  /\ ~MicrotaskPending
  /\ regsLeft' = regsLeft - 1
  /\ modules' = ms
  /\ cognitiveController' =
       [m \in Modules |-> cognitiveController[m] \/ m \in Range(ms)]
  /\ running' = [m \in Modules |-> running[m] /\ m \notin Range(ms)]
  /\ UNCHANGED <<constructed, name, config, updateInterval, stopPromise,
                 stopResolve, intervalId, shouldThrowError, timers, resolved,
                 stopWaiters, inflight, updateCount, errorCount, startWarns,
                 stopWarns, startedAt, wantRunning, stopDone, updatesAtStop,
                 ctorThrew, ccRunning, decisions, loops, ccStartWarns,
                 ccStopWarns, now,
                 pureVars, agent, population, callsLeft, firesLeft, idleLeft, ccCallsLeft>>

RegisterModules(ms) ==
  /\ regsLeft > 0
  /\ ~MicrotaskPending
  /\ regsLeft' = regsLeft - 1
  /\ modules' = ms
  \* module.registerCognitiveController(this), for each module of ms
  /\ cognitiveController' =
       [m \in Modules |-> cognitiveController[m] \/ m \in Range(ms)]
  /\ UNCHANGED <<modVars, ccRunning, decisions, loops, ccStartWarns,
                 ccStopWarns, now,
                 pureVars, agent, population, callsLeft, firesLeft, idleLeft, ccCallsLeft>>

\* A decision list that is replaced by the new decision, not extended.
MakeDecisionReset ==
  << [id |-> Len(decisions) + 1, action |-> "idle", parameters |-> <<>>,
      reasoning |-> "No decision made", timestamp |-> now] >>

\* _makeDecision without its push: the decision is returned and broadcast
\* but never recorded.
MakeDecisionNoPush == decisions

\* ------------------------------------- CognitiveController._makeDecision
\* timestamp is Date.now() / 1000; it is kept here in milliseconds.
NewDecision ==
  [id |-> Len(decisions) + 1, action |-> "idle", parameters |-> <<>>,
   reasoning |-> "No decision made", timestamp |-> now]

\* _makeDecision with unshift for push: the new decision goes to the head
\* of the list.
MakeDecisionUnshift == <<NewDecision>> \o decisions

\* The value of _agentState.decisions after the push.
MakeDecision == Append(decisions, NewDecision)

\* A cycle that hands the AgentState over to the projection: the property
\* the projection never carries, social, is dropped.
MakeDecisionStateProjected ==
  [testState EXCEPT !.decisions = Present(MakeDecision), !.social = Absent]

\* _agentState after _makeDecision: decisions is the list after the push,
\* and no other property is assigned.
MakeDecisionState == [testState EXCEPT !.decisions = Present(MakeDecision)]

\* A cycle that broadcasts the head of the list instead of the decision it
\* has just made.
NewCycleHead ==
  [pc |-> "decided", dec |-> 1, reg |-> <<>>,
   called |-> <<>>, pending |-> {}, errs |-> {}, wake |-> 0]

\* One invocation of _moduleLoop that has just called update(): the decision
\* is made, the broadcast is the continuation of `await this._makeDecision()`.
\* reg is the snapshot Object.entries takes, called the onDecision calls made
\* (position, decision passed), pending the positions whose call is awaited,
\* errs the keys logged by the catch block in the loop's latest broadcast.
NewCycle ==
  [pc |-> "decided", dec |-> Len(decisions) + 1, reg |-> <<>>,
   called |-> <<>>, pending |-> {}, errs |-> {}, wake |-> 0]

\* start() without its `if (this._running)` guard: every call enters a
\* new _moduleLoop.
CCStartNoGuard ==
  /\ ccCallsLeft > 0
  /\ ~MicrotaskPending
  /\ ccCallsLeft' = ccCallsLeft - 1
  /\ Len(decisions) < MaxDecisions
  /\ ccRunning' = TRUE
  /\ decisions' = Append(decisions, NewDecision)
  /\ testState' = MakeDecisionState
  /\ loops' = Append(loops, NewCycle)
  /\ UNCHANGED <<modVars, cognitiveController, modules, ccStartWarns,
                 ccStopWarns, now, bottleneckedState, response, parsed,
                 agent, population, callsLeft,
                 firesLeft, idleLeft, regsLeft>>

CCStart ==
  /\ ccCallsLeft > 0
  /\ ~MicrotaskPending
  /\ ccCallsLeft' = ccCallsLeft - 1
  /\ IF ccRunning
       THEN /\ ccStartWarns' = ccStartWarns + 1
            /\ UNCHANGED <<ccRunning, decisions, testState, loops>>
       ELSE \* this._moduleLoop() runs up to its first await
            /\ Len(decisions) < MaxDecisions
            /\ ccRunning' = TRUE
            /\ decisions' = MakeDecision
            /\ testState' = MakeDecisionState
            /\ loops' = Append(loops, NewCycle)
            /\ UNCHANGED ccStartWarns
  /\ UNCHANGED <<modVars, cognitiveController, modules, ccStopWarns,
                 now, bottleneckedState, response, parsed,
                 agent, population, callsLeft, firesLeft,
                 idleLeft, regsLeft>>

\* --------------------------------------------- CognitiveController.stop
CCStop ==
  /\ ccCallsLeft > 0
  /\ ~MicrotaskPending
  /\ ccCallsLeft' = ccCallsLeft - 1
  /\ IF ~ccRunning
       THEN /\ ccStopWarns' = ccStopWarns + 1
            /\ UNCHANGED ccRunning
       ELSE /\ ccRunning' = FALSE
            /\ UNCHANGED ccStopWarns
  /\ UNCHANGED <<modVars, cognitiveController, modules, decisions, loops,
                 ccStartWarns, now, pureVars,
                 agent, population, callsLeft,
                 firesLeft, idleLeft, regsLeft>>

\* A for-loop that notifies Running modules only: the broadcast ends at
\* the first module that is not Running.
IterateRunningOnly(r) ==
  IF Len(r.called) < Len(r.reg) /\ running[r.reg[Len(r.called) + 1]]
    THEN [r EXCEPT !.pc = "awaiting",
                   !.called = Append(@, <<Len(@) + 1, r.dec>>),
                   !.pending = @ \cup {Len(r.called) + 1}]
    ELSE [r EXCEPT !.pc = "broadcast"]

\* The for-loop without its try/catch: a call that threw ends the broadcast.
IterateAbortOnError(r) ==
  IF Len(r.called) < Len(r.reg) /\ r.errs = {}
    THEN [r EXCEPT !.pc = "awaiting",
                   !.called = Append(@, <<Len(@) + 1, r.dec>>),
                   !.pending = @ \cup {Len(r.called) + 1}]
    ELSE [r EXCEPT !.pc = "broadcast"]

\* The for-loop without its await: every module not yet called is called
\* at once, and the calls settle in any order.
IterateConcurrent(r) ==
  IF Len(r.called) < Len(r.reg)
    THEN [r EXCEPT !.pc = "awaiting",
                   !.called = [k \in 1..Len(r.reg) |-> <<k, r.dec>>],
                   !.pending = 1..Len(r.reg)]
    ELSE IF r.pending = {} THEN [r EXCEPT !.pc = "broadcast"] ELSE r

\* ------------------------------- CognitiveController._broadcastDecision
\* The for-loop of _broadcastDecision from the point where no onDecision
\* call of this broadcast is awaited: the next module of the snapshot is
\* called with the decision, or the loop is over and the broadcast returns.
Iterate(r) ==
  IF Len(r.called) < Len(r.reg)
    THEN [r EXCEPT !.pc = "awaiting",
                   !.called = Append(@, <<Len(@) + 1, r.dec>>),
                   !.pending = @ \cup {Len(r.called) + 1}]
    ELSE [r EXCEPT !.pc = "broadcast"]

\* The broadcast begins: Object.entries(this._modules) is taken.
BroadcastDecision(i) ==
  /\ loops[i].pc = "decided"
  /\ loops' = [loops EXCEPT ![i] =
       Iterate([loops[i] EXCEPT !.reg = modules, !.errs = {}])]
  /\ UNCHANGED <<modVars, cognitiveController, modules, ccRunning, decisions,
                 ccStartWarns, ccStopWarns, now, envVars, pureVars>>

\* An onDecision error that is not caught anywhere and takes the
\* coordinator down with it.
OnDecisionEndFatal(i, p, throws) ==
  /\ loops[i].pc = "awaiting"
  /\ p \in loops[i].pending
  /\ loops' = [loops EXCEPT ![i] = Iterate([loops[i] EXCEPT
                  !.pending = @ \ {p},
                  !.errs = IF throws THEN @ \cup {ToString(p - 1)} ELSE @])]
  /\ ccRunning' = (ccRunning /\ ~throws)
  /\ UNCHANGED <<modVars, cognitiveController, modules, decisions,
                 ccStartWarns, ccStopWarns, now, envVars, pureVars>>

\* The awaited onDecision call at position p settles; when it throws, the
\* catch block logs the key of Object.entries, the array index.
OnDecisionEnd(i, p, throws) ==
  /\ loops[i].pc = "awaiting"
  /\ p \in loops[i].pending
  /\ loops' = [loops EXCEPT ![i] = Iterate([loops[i] EXCEPT
                  !.pending = @ \ {p},
                  !.errs = IF throws THEN @ \cup {ToString(p - 1)} ELSE @])]
  /\ UNCHANGED <<modVars, cognitiveController, modules, ccRunning, decisions,
                 ccStartWarns, ccStopWarns, now, envVars, pureVars>>

\* ------------------------------------ CognitiveController._moduleLoop
\* _broadcastDecision and update() have returned: the loop sleeps
\* this._updateInterval * 1000 milliseconds.
Sleeping == [NewCycle EXCEPT !.pc = "sleep", !.dec = Null,
                             !.wake = now + CCUpdateInterval * SecToMs]

LoopSleep(i) ==
  /\ loops[i].pc = "broadcast"
  \* the errors the broadcast logged stay on the console while it sleeps
  /\ loops' = [loops EXCEPT ![i] = [Sleeping EXCEPT !.errs = loops[i].errs]]
  /\ UNCHANGED <<modVars, cognitiveController, modules, ccRunning, decisions,
                 ccStartWarns, ccStopWarns, now, envVars, pureVars>>

\* The setTimeout of a sleeping loop fires: `while (this._running)`.
RemoveAt(s, i) == [j \in 1..(Len(s) - 1) |-> IF j < i THEN s[j] ELSE s[j + 1]]

LoopWake(i) ==
  /\ loops[i].pc = "sleep"
  /\ loops[i].wake = now
  /\ ~MicrotaskPending
  /\ IF ccRunning
       THEN /\ Len(decisions) < MaxDecisions
            /\ decisions' = MakeDecision
            /\ testState' = MakeDecisionState
            /\ loops' = [loops EXCEPT ![i] =
                 [NewCycle EXCEPT !.errs = loops[i].errs]]
       ELSE /\ loops' = RemoveAt(loops, i)
            /\ UNCHANGED <<decisions, testState>>
  /\ UNCHANGED <<modVars, cognitiveController, modules, ccRunning,
                 ccStartWarns, ccStopWarns, now, envVars, bottleneckedState,
                 response, parsed>>

\* ------------------------------------------------------------ Agent.start
\* One synchronous stretch: controller.start() runs up to the first await
\* of its loop, then start() is called on each module of the registry.
AgentStart ==
  /\ callsLeft > 0
  /\ ~MicrotaskPending
  /\ callsLeft' = callsLeft - 1
  /\ IF agent.running
       THEN UNCHANGED <<agent, modVars, ccVars, testState>>
       ELSE LET S == {m \in Range(modules) : ~running[m]}
                W == {m \in Range(modules) : running[m]}
            IN
            /\ agent' = [agent EXCEPT !.running = TRUE, !.stopDone = FALSE]
            /\ IF ccRunning
                 THEN /\ ccStartWarns' = ccStartWarns + 1
                      /\ UNCHANGED <<ccRunning, decisions, testState, loops>>
                 ELSE /\ Len(decisions) < MaxDecisions
                      /\ ccRunning' = TRUE
                      /\ decisions' = MakeDecision
                      /\ testState' = MakeDecisionState
                      /\ loops' = Append(loops, NewCycle)
                      /\ UNCHANGED ccStartWarns
            /\ wantRunning' = [m \in Modules |->
                 wantRunning[m] \/ m \in Range(modules)]
            /\ startWarns' = [m \in Modules |->
                 IF m \in W THEN startWarns[m] + 1 ELSE startWarns[m]]
            /\ running' = [m \in Modules |-> running[m] \/ m \in S]
            /\ stopPromise' = [m \in Modules |->
                 IF m \in S THEN stopPromise[m] + 1 ELSE stopPromise[m]]
            /\ stopResolve' = [m \in Modules |->
                 IF m \in S THEN stopPromise[m] + 1 ELSE stopResolve[m]]
            /\ intervalId' = [m \in Modules |->
                 IF m \in S THEN stopPromise[m] + 1 ELSE intervalId[m]]
            /\ timers' = [m \in Modules |->
                 IF m \in S
                   THEN timers[m] \cup {[id |-> stopPromise[m] + 1,
                                         due |-> now + updateInterval[m]]}
                   ELSE timers[m]]
            /\ startedAt' = [m \in Modules |->
                 IF m \in S THEN now ELSE startedAt[m]]
            /\ stopDone' = [m \in Modules |-> stopDone[m] /\ m \notin S]
            /\ updatesAtStop' = [m \in Modules |->
                 IF m \in S THEN 0 ELSE updatesAtStop[m]]
            /\ UNCHANGED <<constructed, name, config, updateInterval,
                           shouldThrowError, ctorThrew, resolved, stopWaiters,
                           inflight, updateCount, errorCount, stopWarns,
                           cognitiveController, modules, ccStopWarns>>
  /\ UNCHANGED <<now, bottleneckedState, response, parsed, population,
                 firesLeft, idleLeft, ccCallsLeft, regsLeft>>

\* ------------------------------------------------------------- Agent.stop
\* The synchronous part: the callback of map() calls stop() on each module
\* of the registry and returns undefined, so Promise.all is awaited on an
\* array of undefined.
AgentStop ==
  /\ callsLeft > 0
  /\ ~MicrotaskPending
  /\ callsLeft' = callsLeft - 1
  /\ IF ~agent.running
       THEN UNCHANGED <<agent, running, stopWaiters, stopWarns, wantRunning>>
       ELSE LET R == {m \in Range(modules) : running[m]}
                W == {m \in Range(modules) : ~running[m]}
            IN
            /\ agent' = [agent EXCEPT !.running = FALSE, !.pc = "stopping"]
            /\ wantRunning' = [m \in Modules |->
                 wantRunning[m] /\ m \notin Range(modules)]
            /\ stopWarns' = [m \in Modules |->
                 IF m \in W THEN stopWarns[m] + 1 ELSE stopWarns[m]]
            /\ running' = [m \in Modules |-> running[m] /\ m \notin R]
            /\ stopWaiters' = [m \in Modules |->
                 IF m \in R THEN stopWaiters[m] \cup {stopPromise[m]}
                 ELSE stopWaiters[m]]
  /\ UNCHANGED <<constructed, name, config, updateInterval, shouldThrowError,
                 ctorThrew, stopPromise, stopResolve, intervalId, timers,
                 resolved, inflight, updateCount, errorCount, startWarns,
                 startedAt, stopDone, updatesAtStop, ccVars, now, pureVars,
                 population, firesLeft, idleLeft, ccCallsLeft, regsLeft>>

\* The continuation of `await Promise.all(...)`: controller.stop() is
\* called and Agent.stop() resolves.
AgentStopResume ==
  /\ agent.pc = "stopping"
  /\ agent' = [agent EXCEPT !.pc = "idle", !.stopDone = TRUE]
  /\ IF ~ccRunning
       THEN /\ ccStopWarns' = ccStopWarns + 1
            /\ UNCHANGED ccRunning
       ELSE /\ ccRunning' = FALSE
            /\ UNCHANGED ccStopWarns
  /\ UNCHANGED <<modVars, cognitiveController, modules, decisions, loops,
                 ccStartWarns, now, pureVars, population, callsLeft,
                 firesLeft, idleLeft, ccCallsLeft, regsLeft>>

\* ------------------------------------------------------------ the clock
DueTimes ==
  UNION {{t.due : t \in timers[m]} : m \in Modules}
    \cup {loops[i].wake : i \in {j \in 1..Len(loops) : loops[j].pc = "sleep"}}

Min(S) == CHOOSE x \in S : \A y \in S : x <= y

\* The clock moves when nothing is due: to the next due event, or by one
\* millisecond of idling.
Advance ==
  /\ ~MicrotaskPending
  /\ \A d \in DueTimes : d > now
  /\ \/ /\ DueTimes # {}
        /\ now' = Min(DueTimes)
        /\ UNCHANGED idleLeft
     \/ /\ idleLeft > 0
        /\ \A d \in DueTimes : d > now + 1
        /\ now' = now + 1
        /\ idleLeft' = idleLeft - 1
  /\ UNCHANGED <<modVars, ccVars, pureVars, agent, population, callsLeft, firesLeft,
                 ccCallsLeft, regsLeft>>

SeqsUpTo(S, n) == UNION {[1..k -> S] : k \in 0..n}

\* ------------------------------------------------------------ AgentState
\* A map of type Record<string, number> is the set of its entries.
EmptyMap == {}
Origin == [x |-> 0, y |-> 0, z |-> 0]

Inventories ==
  {EmptyMap, {[item |-> "diamond", count |-> 1], [item |-> "iron", count |-> 2]}}
Locations == {Origin, [x |-> 10, y |-> 20, z |-> 30]}
Items == {"test memory", "test feedback"}
Memories == [relevantMemories : Opt(SeqsUpTo(Items, MaxItems))]
ActionAwarenesses == [actionFeedback : Opt(SeqsUpTo(Items, MaxItems))]

\* The objects a caller can pass as an AgentState, any property missing.
AgentStates ==
  [inventory : Opt(Inventories), location : Opt(Locations),
   memory : Opt(Memories), social : Opt({EmptyMap}),
   actionAwareness : Opt(ActionAwarenesses), decisions : Opt({<<>>})]

createAgentState ==
  [inventory |-> Present(EmptyMap), location |-> Present(Origin),
   memory |-> Present([relevantMemories |-> Absent]),
   social |-> Present(EmptyMap),
   actionAwareness |-> Present([actionFeedback |-> Absent]),
   decisions |-> Present(<<>>)]

\* --------------------------- CognitiveController._createBottleneckedState
\* A reduction written with an object spread: every property of the
\* AgentState is carried over and the four are then overwritten.
CreateBottleneckedStateSpread(agentState) ==
  [agentState EXCEPT
     !.inventory = Present(OrElse(agentState.inventory, EmptyMap)),
     !.location = Present(OrElse(agentState.location, Origin)),
     !.memory =
       IF agentState.memory # Absent
         THEN Present(OrElse(Value(agentState.memory).relevantMemories, <<>>))
         ELSE Absent,
     !.actionAwareness =
       IF agentState.actionAwareness # Absent
         THEN Present(OrElse(Value(agentState.actionAwareness).actionFeedback,
                             <<>>))
         ELSE Absent]

\* The Partial<AgentState> returned: a property the code does not set is
\* Absent in it.
CreateBottleneckedState(agentState) ==
  [inventory |-> Present(OrElse(agentState.inventory, EmptyMap)),
   location |-> Present(OrElse(agentState.location, Origin)),
   memory |->
     IF agentState.memory # Absent
       THEN Present(OrElse(Value(agentState.memory).relevantMemories, <<>>))
       ELSE Absent,
   social |-> Absent,
   actionAwareness |->
     IF agentState.actionAwareness # Absent
       THEN Present(OrElse(Value(agentState.actionAwareness).actionFeedback,
                           <<>>))
       ELSE Absent,
   decisions |-> Absent]

\* controller._createBottleneckedState(testState), as the test calls it.
BottleneckCall ==
  /\ bottleneckedState = Absent
  /\ bottleneckedState' = Present(CreateBottleneckedState(testState))
  /\ UNCHANGED <<modVars, ccVars, now, envVars, testState, response, parsed>>

\* ----------------------------- CognitiveController._parseDecisionResponse
\* A response is a sequence of tokens: the braces, the comma, four members
\* of a JSON object ("A" is "action":"move", "E" is "action":"", "R" is
\* "reasoning":"because", "P" is "parameters": and must be followed by an
\* object) and "x", any other text.
Chars == {"{", "}", ",", "A", "E", "R", "P", "x"}
Responses == SeqsUpTo(Chars, MaxLen)

Max(S) == CHOOSE x \in S : \A y \in S : y <= x
Positions(s, c) == {i \in 1..Len(s) : s[i] = c}

\* A match that stops at the first closing brace (the regular expression
\* with a lazy quantifier).
MatchLazy(s) ==
  LET open == Positions(s, "{") IN
  IF open = {} \/ {j \in Positions(s, "}") : j > Min(open)} = {}
    THEN Absent
    ELSE Present(SubSeq(s, Min(open),
                        Min({j \in Positions(s, "}") : j > Min(open)})))

\* response.match(/\{.*\}/s): the leftmost match, as long as possible.
Match(s) ==
  LET open == Positions(s, "{")
      close == Positions(s, "}")
  IN  IF open = {} \/ close = {} \/ Max(close) < Min(open)
        THEN Absent
        ELSE Present(SubSeq(s, Min(open), Max(close)))

\* The object `{}`: no member.
EmptyObject == [action |-> Absent, parameters |-> Absent, reasoning |-> Absent]

\* JSON.parse on the tokens, by recursive descent: a result has the object
\* read so far and the position after it.
Fail == [ok |-> FALSE, next |-> Null, val |-> EmptyObject]

RECURSIVE ParseObject(_, _)
RECURSIVE ParseMembers(_, _, _)

ParseObject(s, i) ==
  IF i > Len(s) \/ s[i] # "{"
    THEN Fail
    ELSE IF i + 1 <= Len(s) /\ s[i + 1] = "}"
      THEN [ok |-> TRUE, next |-> i + 2, val |-> EmptyObject]
      ELSE ParseMembers(s, i + 1, EmptyObject)

ParseMembers(s, i, acc) ==
  IF i > Len(s)
    THEN Fail
    ELSE
      LET m ==
            IF s[i] = "A"
              THEN [ok |-> TRUE, next |-> i + 1,
                    val |-> [acc EXCEPT !.action = Present("move")]]
            ELSE IF s[i] = "E"
              THEN [ok |-> TRUE, next |-> i + 1,
                    val |-> [acc EXCEPT !.action = Present("")]]
            ELSE IF s[i] = "R"
              THEN [ok |-> TRUE, next |-> i + 1,
                    val |-> [acc EXCEPT !.reasoning = Present("because")]]
            ELSE IF s[i] = "P"
              THEN LET o == ParseObject(s, i + 1) IN
                   IF o.ok
                     THEN [ok |-> TRUE, next |-> o.next,
                           val |-> [acc EXCEPT !.parameters = Present(o.val)]]
                     ELSE Fail
            ELSE Fail
      IN  IF ~m.ok \/ m.next > Len(s)
            THEN Fail
            ELSE IF s[m.next] = "}"
              THEN [ok |-> TRUE, next |-> m.next + 1, val |-> m.val]
            ELSE IF s[m.next] = ","
              THEN ParseMembers(s, m.next + 1, m.val)
            ELSE Fail

\* Absent when JSON.parse throws.
JSONParse(s) ==
  LET r == ParseObject(s, 1) IN
  IF r.ok /\ r.next = Len(s) + 1 THEN Present(r.val) ELSE Absent

\* defaultDecision; timestamp is Date.now() / 1000, kept in milliseconds.
DefaultDecision ==
  [action |-> "idle", parameters |-> EmptyObject,
   reasoning |-> "Failed to parse LLM response", timestamp |-> now]

\* JavaScript `o || d` for a string-valued property o: the empty string is
\* falsy.
OrElseStr(o, d) ==
  IF o = Absent THEN d ELSE IF Value(o) = "" THEN d ELSE Value(o)

\* A decision that takes action and parameters from the parsed object and
\* always gives the default reasoning.
FromObjectNoReasoning(d) ==
  [action |-> OrElseStr(d.action, "idle"),
   parameters |-> OrElse(d.parameters, EmptyObject),
   reasoning |-> "No reasoning provided",
   timestamp |-> now]

\* The decision built from a parsed object, field by field.
FromObject(d) ==
  [action |-> OrElseStr(d.action, "idle"),
   parameters |-> OrElse(d.parameters, EmptyObject),
   reasoning |-> OrElseStr(d.reasoning, "No reasoning provided"),
   timestamp |-> now]

\* A parser whose JSON.parse is outside the try block: the SyntaxError of
\* an unparsable span leaves the function.
ParseDecisionResponseUnguarded(s) ==
  IF Match(s) = Absent
    THEN DefaultDecision
    ELSE IF JSONParse(Value(Match(s))) = Absent
      THEN [thrown |-> "SyntaxError"]
      ELSE FromObject(Value(JSONParse(Value(Match(s)))))

\* A parser that reads a response without JSON as the empty object.
ParseDecisionResponseLenient(s) ==
  IF Match(s) = Absent
    THEN FromObject(EmptyObject)
    ELSE IF JSONParse(Value(Match(s))) = Absent
      THEN DefaultDecision
      ELSE FromObject(Value(JSONParse(Value(Match(s)))))

ParseDecisionResponse(s) ==
  IF Match(s) = Absent
    THEN DefaultDecision
    ELSE IF JSONParse(Value(Match(s))) = Absent
      THEN DefaultDecision
      ELSE FromObject(Value(JSONParse(Value(Match(s)))))

\* What the call writes to the console: level and message.
ParseConsole(s) ==
  IF Match(s) = Absent
    THEN <<"warn", "No JSON found in LLM response">>
    ELSE IF JSONParse(Value(Match(s))) = Absent
      THEN <<"error", "Error parsing LLM response">>
      ELSE <<>>

\* controller._parseDecisionResponse(response).
ParseCall ==
  /\ parsed = Absent
  /\ parsed' = Present([decision |-> ParseDecisionResponse(response),
                        console |-> ParseConsole(response)])
  /\ UNCHANGED <<modVars, ccVars, now, envVars, testState,
                 bottleneckedState, response>>

\* The AgentState of the bottleneck test (part_002:146-150).
TestAgentState ==
  [createAgentState EXCEPT
     !.inventory = Present({[item |-> "diamond", count |-> 1],
                            [item |-> "iron", count |-> 2]}),
     !.location = Present([x |-> 10, y |-> 20, z |-> 30]),
     !.memory = Present([relevantMemories |-> Present(<<"test memory">>)]),
     !.actionAwareness =
       Present([actionFeedback |-> Present(<<"test feedback">>)])]

\* ------------------------------------------------------- specifications
\* No call of a pure helper is under way.
InitPure ==
  /\ testState = createAgentState
  /\ bottleneckedState = Absent
  /\ response = <<>>
  /\ parsed = Absent

\* The state after `new CognitiveController(config, createAgentState())`.
InitRest ==
  /\ ctorThrew = [m \in Modules |-> FALSE]
  /\ running = [m \in Modules |-> FALSE]
  /\ stopPromise = [m \in Modules |-> Null]
  /\ stopResolve = [m \in Modules |-> Null]
  /\ intervalId = [m \in Modules |-> Null]
  /\ timers = [m \in Modules |-> {}]
  /\ resolved = [m \in Modules |-> {}]
  /\ stopWaiters = [m \in Modules |-> {}]
  /\ inflight = [m \in Modules |-> 0]
  /\ updateCount = [m \in Modules |-> 0]
  /\ errorCount = [m \in Modules |-> 0]
  /\ startWarns = [m \in Modules |-> 0]
  /\ stopWarns = [m \in Modules |-> 0]
  /\ wantRunning = [m \in Modules |-> FALSE]
  /\ updatesAtStop = [m \in Modules |-> 0]
  /\ startedAt = [m \in Modules |-> 0]
  /\ stopDone = [m \in Modules |-> FALSE]
  /\ ccRunning = FALSE
  /\ decisions = <<>>
  /\ loops = <<>>
  /\ ccStartWarns = 0
  /\ ccStopWarns = 0
  /\ now = 0

\* No module constructed yet.
InitState ==
  /\ constructed = [m \in Modules |-> FALSE]
  /\ name = [m \in Modules |-> ""]
  /\ config = [m \in Modules |-> Null]
  /\ updateInterval = [m \in Modules |-> Null]
  /\ shouldThrowError = [m \in Modules |-> FALSE]
  /\ cognitiveController = [m \in Modules |-> FALSE]
  /\ modules = <<>>
  /\ InitRest

\* Every module constructed as new TestModule("skill_execution", Configs[1]).
InitConstructed ==
  /\ constructed = [m \in Modules |-> TRUE]
  /\ name = [m \in Modules |-> "skill_execution"]
  /\ config = [m \in Modules |-> 1]
  /\ updateInterval = [m \in Modules |-> Configs[1]["skill_execution"]]
  /\ shouldThrowError = [m \in Modules |-> FALSE]
  /\ InitRest

ModuleStep ==
  \/ \E m \in Modules, n \in Names, c \in 1..Len(Configs), e \in BOOLEAN :
       Construct(m, n, c, e)
  \/ \E m \in Modules : Start(m)
  \/ \E m \in Modules : Stop(m)
  \/ \E m \in Modules : StopResume(m)
  \/ \E m \in Modules : \E t \in timers[m] : ModuleLoop(m, t)
  \/ \E m \in Modules : UpdateEnd(m)

ControllerStep ==
  \/ CCStart
  \/ CCStop
  \/ \E i \in 1..Len(loops) : BroadcastDecision(i)
  \/ \E i \in 1..Len(loops) : \E p \in loops[i].pending, throws \in BOOLEAN :
       OnDecisionEnd(i, p, throws)
  \/ \E i \in 1..Len(loops) : LoopSleep(i)
  \/ \E i \in 1..Len(loops) : LoopWake(i)

\* One module object and its timer loop.
InitModule ==
  /\ InitState
  /\ InitPure
  /\ agent = AgentIdle
  /\ population = 1
  /\ callsLeft = MaxCalls
  /\ firesLeft = MaxFires
  /\ idleLeft = MaxIdle
  /\ ccCallsLeft = 0
  /\ regsLeft = 0

NextModule == ModuleStep \/ Advance

SpecModule == InitModule /\ [][NextModule]_vars

\* Two module objects, each with its own timer loop.
InitPair ==
  /\ InitState
  /\ InitPure
  /\ agent = AgentIdle
  /\ population = 2
  /\ callsLeft = PairCalls
  /\ firesLeft = PairFires
  /\ idleLeft = MaxIdle
  /\ ccCallsLeft = 0
  /\ regsLeft = 0

SpecPair == InitPair /\ [][NextModule]_vars

\* The controller of the broadcast tests (part_002:121-128): NumModules
\* modules constructed and none started, and controller.registerModules(ms)
\* already called with an array ms of them.
InitController ==
  /\ InitConstructed
  /\ InitPure
  /\ \E ms \in Registries :
       /\ modules = ms
       /\ cognitiveController = [m \in Modules |-> m \in Range(ms)]
  /\ agent = AgentIdle
  /\ population = NumModules
  /\ callsLeft = 0
  /\ firesLeft = 0
  /\ idleLeft = 0
  /\ ccCallsLeft = MaxCCCalls
  /\ regsLeft = 0

NextController == ControllerStep \/ Advance

SpecController == InitController /\ [][NextController]_vars

\* The agent: the controller and two modules on one event loop, wired as
\* Agent.initializeModules wires them (registerCognitiveController on each
\* module, then registerModules with the array): module 1 with
\* update_interval 100 and an update() that throws, module 2 with
\* update_interval 200.
Init ==
  /\ constructed = [m \in Modules |-> m <= 2]
  /\ name = [m \in Modules |->
       IF m = 1 THEN "skill_execution" ELSE IF m = 2 THEN "memory" ELSE ""]
  /\ config = [m \in Modules |-> IF m <= 2 THEN m ELSE Null]
  /\ updateInterval = [m \in Modules |->
       IF m = 1 THEN Configs[1]["skill_execution"]
       ELSE IF m = 2 THEN Configs[2]["memory"] ELSE Null]
  /\ shouldThrowError = [m \in Modules |-> m = 1]
  /\ cognitiveController = [m \in Modules |-> m <= 2]
  /\ modules = <<1, 2>>
  /\ InitRest
  /\ InitPure
  /\ agent = AgentIdle
  /\ population = 2
  /\ callsLeft = AgentCalls
  /\ firesLeft = AgentFires
  /\ idleLeft = 0
  /\ ccCallsLeft = AgentCCCalls
  /\ regsLeft = 0

Next ==
  \/ \E m \in Modules : Start(m)
  \/ \E m \in Modules : Stop(m)
  \/ \E m \in Modules : StopResume(m)
  \/ \E m \in Modules : \E t \in timers[m] : ModuleLoop(m, t)
  \/ \E m \in Modules : UpdateEnd(m)
  \/ ControllerStep
  \/ Advance

Spec == Init /\ [][Next]_vars

\* The controller of the lifecycle and error tests (part_002:70-77,
\* 164-174): one module, whose update() throws or not, constructed and
\* passed to controller.registerModules([module]); the module's own
\* start() and stop() may be called as well, as Agent.start and Agent.stop
\* do.
InitWiring ==
  /\ constructed = [m \in Modules |-> m = 1]
  /\ name = [m \in Modules |-> IF m = 1 THEN "skill_execution" ELSE ""]
  /\ config = [m \in Modules |-> IF m = 1 THEN 1 ELSE Null]
  /\ updateInterval = [m \in Modules |->
       IF m = 1 THEN Configs[1]["skill_execution"] ELSE Null]
  /\ shouldThrowError \in {[m \in Modules |-> e /\ m = 1] : e \in BOOLEAN}
  /\ cognitiveController = [m \in Modules |-> m = 1]
  /\ modules = <<1>>
  /\ InitRest
  /\ InitPure
  /\ agent = AgentIdle
  /\ population = 1
  /\ callsLeft = WireCalls
  /\ firesLeft = WireFires
  /\ idleLeft = 0
  /\ ccCallsLeft = WireCCCalls
  /\ regsLeft = WireRegs

NextWiring ==
  \/ regsLeft > 0 /\ \E ms \in Registries : RegisterModules(ms)
  \/ Next

SpecWiring == InitWiring /\ [][NextWiring]_vars

\* The controller of the broadcast test (part_002:121-128) after
\* controller.registerModules([module1, module2]), with a third module
\* constructed and not registered; registerModules may be called again.
InitRegistry ==
  /\ constructed = [m \in Modules |-> m <= 3]
  /\ name = [m \in Modules |->
       IF m = 2 THEN "memory" ELSE IF m <= 3 THEN "skill_execution" ELSE ""]
  /\ config = [m \in Modules |->
       IF m = 2 THEN 2 ELSE IF m <= 3 THEN 1 ELSE Null]
  /\ updateInterval = [m \in Modules |->
       IF m = 2 THEN Configs[2]["memory"]
       ELSE IF m <= 3 THEN Configs[1]["skill_execution"] ELSE Null]
  /\ shouldThrowError = [m \in Modules |-> FALSE]
  /\ InitRest
  \* the AgentState as createAgentState() builds it, or filled in since
  /\ testState \in {createAgentState, TestAgentState}
  /\ bottleneckedState = Absent
  /\ response = <<>>
  /\ parsed = Absent
  /\ modules = <<1, 2>>
  /\ cognitiveController = [m \in Modules |-> m \in {1, 2}]
  /\ agent = AgentIdle
  /\ population = 3
  /\ callsLeft = 0
  /\ firesLeft = 0
  /\ idleLeft = 0
  /\ ccCallsLeft = RegCCCalls
  /\ regsLeft = MaxRegs

NextRegistry ==
  \/ regsLeft > 0 /\ \E ms \in Registries : RegisterModules(ms)
  \/ ControllerStep
  \/ Advance

SpecRegistry == InitRegistry /\ [][NextRegistry]_vars

\* The Agent driven through its own start() and stop(): the modules and
\* the controller wired as in Init, none started.
InitAgent ==
  /\ constructed = [m \in Modules |-> m <= 2]
  /\ name = [m \in Modules |->
       IF m = 1 THEN "skill_execution" ELSE IF m = 2 THEN "memory" ELSE ""]
  /\ config = [m \in Modules |-> IF m <= 2 THEN m ELSE Null]
  /\ updateInterval = [m \in Modules |->
       IF m = 1 THEN Configs[1]["skill_execution"]
       ELSE IF m = 2 THEN Configs[2]["memory"] ELSE Null]
  /\ shouldThrowError = [m \in Modules |-> m = 1]
  /\ cognitiveController = [m \in Modules |-> m <= 2]
  /\ modules = <<1, 2>>
  /\ InitRest
  /\ InitPure
  /\ agent = AgentIdle
  /\ population = 2
  /\ callsLeft = AgentCalls
  /\ firesLeft = AgentFires
  /\ idleLeft = 0
  /\ ccCallsLeft = 0
  /\ regsLeft = 0

NextAgent ==
  \/ AgentStart
  \/ AgentStop
  \/ AgentStopResume
  \/ \E m \in Modules : StopResume(m)
  \/ \E m \in Modules : \E t \in timers[m] : ModuleLoop(m, t)
  \/ \E m \in Modules : UpdateEnd(m)
  \/ \E i \in 1..Len(loops) : BroadcastDecision(i)
  \/ \E i \in 1..Len(loops) : \E p \in loops[i].pending, throws \in BOOLEAN :
       OnDecisionEnd(i, p, throws)
  \/ \E i \in 1..Len(loops) : LoopSleep(i)
  \/ \E i \in 1..Len(loops) : LoopWake(i)
  \/ Advance

SpecAgent == InitAgent /\ [][NextAgent]_vars

\* No module, no controller activity: every budget of the environment is 0.
InitQuiet ==
  /\ InitState
  /\ agent = AgentIdle
  /\ population = 0
  /\ callsLeft = 0
  /\ firesLeft = 0
  /\ idleLeft = 0
  /\ ccCallsLeft = 0
  /\ regsLeft = 0

\* _createBottleneckedState called once on an arbitrary AgentState
\* (part_002:144-162).
InitBottleneck ==
  /\ InitQuiet
  /\ testState \in AgentStates
  /\ bottleneckedState = Absent
  /\ response = <<>>
  /\ parsed = Absent

NextBottleneck == BottleneckCall

SpecBottleneck == InitBottleneck /\ [][NextBottleneck]_vars

\* _parseDecisionResponse called once on an arbitrary response.
InitParse ==
  /\ InitQuiet
  /\ testState = createAgentState
  /\ bottleneckedState = Absent
  /\ response \in Responses
  /\ parsed = Absent

NextParse == ParseCall

SpecParse == InitParse /\ [][NextParse]_vars

\* ------------------------------------------------------------ properties
IsPrefix(s, t) == Len(s) <= Len(t) /\ SubSeq(t, 1, Len(s)) = s

\* No timer of module m is due at the current instant.
NoneDue(m) == \A t \in timers[m] : t.due > now

\* Module m was started once, at startedAt[m], and is Running since.
RunningSinceStart(m) == constructed[m] /\ running[m] /\ stopPromise[m] = 1

\* The interval ticks of m that have fallen due since it was started.
TicksDue(m) == (now - startedAt[m]) \div updateInterval[m]

\* C1: when the broadcast of a decision returns, onDecision has been called
\* exactly once on each module of the registry, each time with that
\* decision, whichever of the calls threw.
C1_BroadcastCallsEveryModuleOnce ==
  \A i \in 1..Len(loops) :
    loops[i].pc = "broadcast" =>
      LET r == loops[i] IN
      /\ r.reg = modules
      /\ r.pending = {}
      /\ Len(r.called) = Len(modules)
      /\ \A k \in 1..Len(modules) : r.called[k] = <<k, r.dec>>
      /\ r.dec \in 1..Len(decisions)
      /\ decisions[r.dec].id = r.dec

\* A broadcast over a full registry has returned although the call on its
\* first module threw.
C1_Witness ==
  \E i \in 1..Len(loops) :
    /\ loops[i].pc = "broadcast"
    /\ Len(loops[i].reg) = NumModules
    /\ Len(loops[i].called) = NumModules
    /\ "0" \in loops[i].errs

\* C2: the modules are notified in registry order and one at a time: the
\* k-th call of a broadcast goes to the k-th module of the registry, and it
\* begins only when every earlier call has settled.
C2_BroadcastSequentialInRegistryOrder ==
  \A i \in 1..Len(loops) :
    LET r == loops[i] IN
    /\ \A k \in 1..Len(r.called) : r.called[k][1] = k
    /\ r.pending \subseteq {Len(r.called)}
    /\ r.pc = "awaiting" => r.reg = modules /\ r.pending = {Len(r.called)}

\* The second module of a registry whose order is not the order of
\* construction is being notified, the first call having settled.
C2_Witness ==
  \E i \in 1..Len(loops) :
    /\ loops[i].pc = "awaiting"
    /\ Len(loops[i].reg) >= 2
    /\ loops[i].reg[1] > loops[i].reg[2]
    /\ loops[i].pending = {2}

\* C3: once stop() of a Running module has resolved, running is false and
\* no update() call begins until a later start().
C3_StoppedAfterStopResolves ==
  \A m \in Modules :
    stopDone[m] => ~running[m] /\ updateCount[m] = updatesAtStop[m]

\* stop() has resolved after one update, and a timer left armed by an
\* earlier start() has fired since.
C3_Witness ==
  \E m \in Modules :
    /\ stopDone[m]
    /\ updateCount[m] = 1
    /\ timers[m] # {}
    /\ firesLeft = MaxFires - 3

\* C4: the ticks of one module never run concurrently: a tick begins only
\* after the previous tick's update() has settled.
C4_TicksNeverOverlap == \A m \in Modules : inflight[m] <= 1

\* C5: a module with update interval i that has been Running for t
\* milliseconds has executed update() exactly floor(t / i) times.
C5_TickCount ==
  \A m \in Modules :
    RunningSinceStart(m) /\ NoneDue(m) => updateCount[m] = TicksDue(m)

\* Intervals 100 and 200, both Running for 200 ms: 2 and 1 updates.
C5_Witness ==
  \E a, b \in Modules :
    /\ RunningSinceStart(a) /\ RunningSinceStart(b)
    /\ updateInterval[a] = 100 /\ updateInterval[b] = 200
    /\ startedAt[a] = 0 /\ startedAt[b] = 0
    /\ now = 200
    /\ updateCount[a] = 2 /\ updateCount[b] = 1

\* C6: start() on a Running module logs exactly one warning and changes
\* nothing else: no second timer, the stop promise and its resolver kept.
C6_StartOnRunningIsNoOp ==
  [][\A m \in Modules :
       Start(m) /\ running[m] =>
         /\ startWarns'[m] = startWarns[m] + 1
         /\ UNCHANGED <<running, timers, intervalId, stopPromise,
                        stopResolve, stopWaiters, resolved, startedAt>>]_vars

\* start() was called on a Running module, which still has its one timer.
C6_Witness ==
  \E m \in Modules :
    /\ startWarns[m] >= 1
    /\ running[m]
    /\ stopPromise[m] = 1
    /\ Cardinality(timers[m]) = 1

\* C7: stop() on a Stopped module logs exactly one warning, changes nothing
\* else and returns without awaiting the stop promise.
C7_StopOnStoppedIsNoOp ==
  [][\A m \in Modules :
       Stop(m) /\ ~running[m] =>
         /\ stopWarns'[m] = stopWarns[m] + 1
         /\ UNCHANGED <<running, timers, intervalId, stopPromise,
                        stopResolve, stopWaiters, resolved, stopDone>>]_vars

\* stop() was called on a module that was never started.
C7_Witness ==
  \E m \in Modules :
    /\ stopWarns[m] >= 1
    /\ ~running[m]
    /\ stopPromise[m] = Null
    /\ stopWaiters[m] = {}

\* C8: a module whose update() throws on every tick stays Running and keeps
\* ticking on schedule, every settled tick logging one error, and the ticks
\* of the other modules are not disturbed.
C8_ThrowingUpdateKeepsTicking ==
  \A m \in Modules :
    (constructed[m] /\ shouldThrowError[m] /\ wantRunning[m]
       /\ stopPromise[m] = 1) =>
      /\ running[m]
      /\ NoneDue(m) =>
           /\ updateCount[m] = TicksDue(m)
           /\ errorCount[m] = updateCount[m] - inflight[m]
      /\ \A k \in Modules \ {m} :
           RunningSinceStart(k) /\ NoneDue(k) => updateCount[k] = TicksDue(k)

\* Two errors logged by a throwing module that is still Running, beside a
\* module that has ticked without error.
C8_Witness ==
  \E m, k \in Modules :
    /\ shouldThrowError[m] /\ ~shouldThrowError[k]
    /\ running[m] /\ running[k]
    /\ errorCount[m] = 2
    /\ updateCount[k] >= 1 /\ errorCount[k] = 0 /\ inflight[k] = 0

\* C9: a module exists only if its configuration has an entry under its
\* name; it then has that entry's update_interval and is Stopped until it
\* is started; a construction that found no entry produced no module.
C9_ConstructorNeedsConfigEntry ==
  \A m \in Modules :
    /\ constructed[m] =>
         /\ Configs[config[m]][name[m]] # Null
         /\ updateInterval[m] = Configs[config[m]][name[m]]
         /\ stopPromise[m] = Null => ~running[m]
    /\ ctorThrew[m] => ~constructed[m]

\* One module constructed from the second configuration and not started,
\* and one construction that failed.
C9_Witness ==
  \E m, k \in Modules :
    /\ constructed[m] /\ config[m] = 2 /\ updateInterval[m] = 200
    /\ ~running[m] /\ stopPromise[m] = Null
    /\ ctorThrew[k] /\ ~constructed[k]

\* C10: AgentState.decisions only grows: every step leaves the decisions
\* already recorded in place, as a prefix of the new list.
C10_DecisionsAppendOnly == [][IsPrefix(decisions, decisions')]_vars

\* Two decisions recorded, the second by a loop that woke from its sleep.
C10_Witness ==
  /\ Len(decisions) >= 2
  /\ \A k \in 1..Len(decisions) : decisions[k].id = k
  /\ decisions[2].timestamp > decisions[1].timestamp

\* C11: the decision of a cycle is appended to AgentState.decisions before
\* onDecision is called on any module for it: whenever a cycle is at or past
\* its broadcast, its decision is already in the list, and every call made
\* so far passed that decision.
C11_DecisionAppendedBeforeBroadcast ==
  \A i \in 1..Len(loops) :
    loops[i].pc \in {"decided", "awaiting", "broadcast"} =>
      LET r == loops[i] IN
      /\ r.dec \in 1..Len(decisions)
      /\ decisions[r.dec].action = "idle"
      /\ decisions[r.dec].timestamp <= now
      /\ \A k \in 1..Len(r.called) :
           r.called[k][2] \in 1..Len(decisions) /\ r.called[k][2] = r.dec

\* The second cycle of a loop is notifying a module of its decision, the
\* second of the list.
C11_Witness ==
  \E i \in 1..Len(loops) :
    /\ loops[i].pc = "awaiting"
    /\ Len(loops[i].called) >= 1
    /\ loops[i].dec = 2
    /\ Len(decisions) = 2

\* C12: once stop() of the coordinator has resolved, no further decision is
\* appended and no further onDecision call is made: while the running flag
\* stays cleared, no loop makes a new call.
C12_NoActivityAfterStop ==
  [][(~ccRunning /\ ~ccRunning' /\ Len(loops') = Len(loops)) =>
       /\ decisions' = decisions
       /\ \A i \in 1..Len(loops) :
            Len(loops'[i].called) <= Len(loops[i].called)]_vars

\* C13: start() on a running coordinator logs one warning, leaves it
\* running and enters no second loop; stop() on a stopped coordinator logs
\* one warning and changes nothing; after start() the coordinator is
\* running and after stop() it is not.
C13_CoordinatorMisuseIsNoOp ==
  [][/\ (CCStart /\ ccRunning) =>
          /\ ccStartWarns' = ccStartWarns + 1
          /\ UNCHANGED <<ccRunning, loops, decisions, ccStopWarns>>
     /\ (CCStop /\ ~ccRunning) =>
          /\ ccStopWarns' = ccStopWarns + 1
          /\ UNCHANGED <<ccRunning, loops, decisions, ccStartWarns>>
     /\ CCStart => ccRunning'
     /\ CCStop => ~ccRunning']_vars

\* stop() was called on a stopped coordinator and start() on a running one,
\* which runs its one loop.
C13_Witness ==
  /\ ccStopWarns >= 1
  /\ ccStartWarns >= 1
  /\ ccRunning
  /\ Len(loops) = 1

\* C15: no failure inside a cycle stops the coordinator: the running flag
\* changes only in start() and stop(), a loop ends only when it finds the
\* flag cleared, and a loop that wakes with the flag set begins its next
\* cycle, whatever its last broadcast logged.
C15_FailingCycleDoesNotStopCoordinator ==
  [][/\ ccRunning' # ccRunning => CCStart \/ CCStop
     /\ Len(loops') < Len(loops) => ~ccRunning
     /\ \A i \in 1..Len(loops) :
          (LoopWake(i) /\ ccRunning) =>
            /\ Len(decisions') = Len(decisions) + 1
            /\ loops'[i].pc = "decided"
            /\ loops'[i].dec = Len(decisions')]_vars

\* The coordinator is running and a loop has begun its second cycle after a
\* broadcast in which every module threw.
C15_Witness ==
  \E i \in 1..Len(loops) :
    /\ ccRunning
    /\ loops[i].pc = "decided"
    /\ loops[i].dec = 2
    /\ Cardinality(loops[i].errs) = NumModules

\* agentState.memory?.relevantMemories and
\* agentState.actionAwareness?.actionFeedback.
RelevantMemories(s) ==
  IF s.memory = Absent THEN Absent ELSE Value(s.memory).relevantMemories

ActionFeedback(s) ==
  IF s.actionAwareness = Absent
    THEN Absent
    ELSE Value(s.actionAwareness).actionFeedback

\* C16: the bottleneck reduction returns the input's inventory and location
\* (the empty map and the origin when absent), memory.relevantMemories as
\* memory and actionAwareness.actionFeedback as actionAwareness, and neither
\* social nor decisions.
C16_BottleneckProjection ==
  bottleneckedState # Absent =>
    LET b == Value(bottleneckedState) IN
    /\ b.inventory =
         (IF testState.inventory = Absent
            THEN Present(EmptyMap) ELSE testState.inventory)
    /\ b.location =
         (IF testState.location = Absent
            THEN Present(Origin) ELSE testState.location)
    /\ RelevantMemories(testState) # Absent =>
         b.memory = RelevantMemories(testState)
    /\ ActionFeedback(testState) # Absent =>
         b.actionAwareness = ActionFeedback(testState)
    /\ b.social = Absent
    /\ b.decisions = Absent

\* The reduction of the state the test builds (part_002:146-150), which
\* also has social and decisions.
C16_Witness ==
  /\ bottleneckedState # Absent
  /\ testState.social # Absent /\ testState.decisions # Absent
  /\ testState.inventory # Absent
  /\ Value(bottleneckedState).memory # Absent
  /\ Value(bottleneckedState).actionAwareness # Absent
  /\ Cardinality(Value(testState.inventory)) = 2
  /\ Value(bottleneckedState).inventory = testState.inventory
  /\ Value(Value(bottleneckedState).location) = [x |-> 10, y |-> 20, z |-> 30]
  /\ Len(Value(Value(bottleneckedState).memory)) = 1
  /\ Len(Value(Value(bottleneckedState).actionAwareness)) = 1

\* C17: when memory (likewise actionAwareness) is absent from the
\* AgentState, or present without its relevantMemories (actionFeedback),
\* the result has that field and it is the empty sequence.
C17_AbsentFieldsYieldEmptySequence ==
  bottleneckedState # Absent =>
    LET b == Value(bottleneckedState) IN
    /\ RelevantMemories(testState) = Absent => b.memory = Present(<<>>)
    /\ ActionFeedback(testState) = Absent => b.actionAwareness = Present(<<>>)

\* Two AgentStates agree on the four things the reduction reads.
Agree(s, t) ==
  /\ s.inventory = t.inventory
  /\ s.location = t.location
  /\ RelevantMemories(s) = RelevantMemories(t)
  /\ ActionFeedback(s) = ActionFeedback(t)

\* C18: the bottleneck reduction is total, leaves the AgentState unchanged,
\* and gives equal results for AgentStates that agree on inventory,
\* location, memory.relevantMemories and actionAwareness.actionFeedback.
C18_BottleneckPureAndDeterministic ==
  [][BottleneckCall =>
       /\ testState' = testState
       /\ bottleneckedState' # Absent
       /\ \A t \in AgentStates :
            Agree(testState, t) =>
              Present(CreateBottleneckedState(t)) = bottleneckedState']_vars

\* The text from the first "{" of a response to its last "}", when the
\* response has a "{" before a "}".
HasSpan(s) == \E i, j \in 1..Len(s) : i < j /\ s[i] = "{" /\ s[j] = "}"

Span(s) ==
  SubSeq(s, CHOOSE i \in 1..Len(s) : s[i] = "{" /\ \A k \in 1..(i - 1) : s[k] # "{",
            CHOOSE j \in 1..Len(s) : s[j] = "}" /\ \A k \in (j + 1)..Len(s) : s[k] # "}")

\* C19 as stated: a response without a brace-delimited span is parsed to
\* action "idle", empty parameters and reasoning "No JSON found in LLM
\* response".
C19_NoJsonReasoning ==
  (parsed # Absent /\ ~HasSpan(response)) =>
    /\ Value(parsed).decision.action = "idle"
    /\ Value(parsed).decision.parameters = EmptyObject
    /\ Value(parsed).decision.reasoning = "No JSON found in LLM response"

\* C19 amended: a response without a brace-delimited span is parsed to the
\* one default decision, action "idle", empty parameters and reasoning
\* "Failed to parse LLM response"; "No JSON found in LLM response" is the
\* warning the call logs.
C19_NoJsonYieldsDefault ==
  (parsed # Absent /\ ~HasSpan(response)) =>
    /\ Value(parsed).decision.action = "idle"
    /\ Value(parsed).decision.parameters = EmptyObject
    /\ Value(parsed).decision.reasoning = "Failed to parse LLM response"
    /\ Value(parsed).console = <<"warn", "No JSON found in LLM response">>

\* A response with both braces and a member, the closing brace first.
C19_Witness ==
  /\ parsed # Absent
  /\ response = <<"}", "A", "{">>

\* C20: a response whose span from the first "{" to the last "}" is not
\* parsable is parsed to action "idle", empty parameters and reasoning
\* "Failed to parse LLM response".
C20_UnparsableSpanYieldsDefault ==
  (parsed # Absent /\ HasSpan(response)
     /\ JSONParse(Span(response)) = Absent) =>
    /\ Value(parsed).decision.action = "idle"
    /\ Value(parsed).decision.parameters = EmptyObject
    /\ Value(parsed).decision.reasoning = "Failed to parse LLM response"

\* Two objects side by side: each is parsable, the span over both is not.
C20_Witness ==
  /\ parsed # Absent
  /\ response = <<"{", "A", "}", "{", "}">>

\* What a response with a parsable span supplies: the object JSON.parse
\* reads from the span.
Supplied(s) == Value(JSONParse(Span(s)))

WellFormed(s) == HasSpan(s) /\ JSONParse(Span(s)) # Absent

\* C21 as stated: a well-formed span falls back field by field, and every
\* action, parameters and reasoning value it supplies is preserved.
C21_SuppliedFieldsPreserved ==
  (parsed # Absent /\ WellFormed(response)) =>
    LET d == Value(parsed).decision
        o == Supplied(response)
    IN  /\ d.action = (IF o.action = Absent THEN "idle" ELSE Value(o.action))
        /\ d.parameters =
             (IF o.parameters = Absent THEN EmptyObject ELSE Value(o.parameters))
        /\ d.reasoning =
             (IF o.reasoning = Absent
                THEN "No reasoning provided" ELSE Value(o.reasoning))

\* C21 amended: a well-formed span falls back field by field, a missing
\* field or one supplied as the empty string yielding the default; every
\* other supplied action, parameters and reasoning value is preserved.
C21_TruthyFieldsPreserved ==
  (parsed # Absent /\ WellFormed(response)) =>
    LET d == Value(parsed).decision
        o == Supplied(response)
    IN  /\ d.action =
             (IF o.action \in {Absent, Present("")}
                THEN "idle" ELSE Value(o.action))
        /\ d.parameters =
             (IF o.parameters = Absent THEN EmptyObject ELSE Value(o.parameters))
        /\ d.reasoning =
             (IF o.reasoning \in {Absent, Present("")}
                THEN "No reasoning provided" ELSE Value(o.reasoning))

\* An empty action and a reasoning are supplied, parameters are missing.
C21_Witness ==
  /\ parsed # Absent
  /\ response = <<"{", "E", ",", "R", "}">>
  /\ Value(parsed).decision.reasoning = "because"

\* C22: parsing is total: whatever the response, the call returns a
\* decision with action, parameters, reasoning and timestamp all set.
C22_ParseTotal ==
  parsed # Absent =>
    LET d == Value(parsed).decision IN
    /\ DOMAIN d = {"action", "parameters", "reasoning", "timestamp"}
    /\ d.action \in {"idle", "move"}
    /\ DOMAIN d.parameters = DOMAIN EmptyObject
    /\ d.reasoning \in {"because", "No reasoning provided",
                        "Failed to parse LLM response"}
    /\ d.timestamp = now

\* A response with text around a span that is not JSON.
C22_Witness ==
  /\ parsed # Absent
  /\ response = <<"x", "{", "x", "}", "x">>
  /\ Value(parsed).console[1] = "error"

\* Some update() of module k has been called and has not settled.
Hung(k) == inflight[k] > 0

\* C23: while an update() of one module stays unsettled, every other module
\* keeps ticking on schedule and no sleeping coordinator loop is overdue.
C23_HungUpdateBlocksNoOne ==
  \A k \in Modules :
    Hung(k) =>
      /\ \A m \in Modules \ {k} :
           RunningSinceStart(m) /\ NoneDue(m) => updateCount[m] = TicksDue(m)
      /\ \A i \in 1..Len(loops) :
           loops[i].pc = "sleep" => loops[i].wake >= now

\* Module 1's first update() never settled; module 2 ticked after it and
\* the coordinator, started later still, made a decision, broadcast it to
\* both modules and went to sleep.
C23_Witness ==
  /\ Hung(1) /\ errorCount[1] = 0
  /\ RunningSinceStart(2) /\ NoneDue(2)
  /\ now = 200 /\ updateCount[2] = 1
  /\ Len(decisions) = 1 /\ decisions[1].timestamp = 200
  /\ Len(loops) = 1 /\ loops[1].pc = "sleep"

\* C24: at the moment stop() resolves, no update() of that module is still
\* executing.
C24_NoUpdateInFlightWhenStopResolves ==
  [][\A m \in Modules : StopResume(m) => inflight[m] = 0]_vars

\* C25: the running flag of a module changes only in a step of its start()
\* or its stop(); ticks, update() outcomes, onDecision calls and
\* registrations leave it as it is.
C25_RunningChangesOnlyByStartStop ==
  [][\A m \in Modules : running'[m] # running[m] => Start(m) \/ Stop(m)]_vars

\* Module 1 is Running after a tick whose update() threw, an onDecision
\* call on it that has settled and a registration of it.
C25_Witness ==
  /\ running[1]
  /\ errorCount[1] = 1
  /\ regsLeft = 0 /\ modules = <<1>>
  /\ \E i \in 1..Len(loops) :
       /\ loops[i].pc = "broadcast"
       /\ loops[i].called = <<(<<1, 1>>)>>
       /\ decisions[1].timestamp > startedAt[1] + updateInterval[1]

\* Loop i makes an onDecision call in this step.
CallMade(i) ==
  /\ i <= Len(loops') /\ Len(loops') = Len(loops)
  /\ Len(loops'[i].called) > Len(loops[i].called)

\* The module that loop i calls in this step.
Callee(i) == loops'[i].reg[Len(loops'[i].called)]

\* A step that spends a registration is a registerModules(ms) that leaves
\* the registry equal to ms, in order, and every module of ms holding a
\* reference to the coordinator.
Registered ==
  regsLeft' # regsLeft =>
    \E ms \in Registries :
      /\ RegisterModules(ms)
      /\ modules' = ms
      /\ \A m \in Range(ms) : cognitiveController'[m]

\* C26 as stated: registerModules(ms) replaces the registry with exactly
\* ms, in order, every module of ms holds a reference to the coordinator,
\* and a module that is not in the registry is no longer broadcast to.
C26_EarlierEntriesNeverCalled ==
  [][/\ Registered
     /\ \A i \in 1..Len(loops) :
          CallMade(i) => Callee(i) \in Range(modules)]_vars

\* C26 amended: registerModules(ms) replaces the registry with exactly ms,
\* in order, every module of ms holds a reference to the coordinator, and
\* every broadcast that begins afterwards goes to ms; a broadcast under
\* way keeps the registry it began with.
C26_RegistryReplaced ==
  [][/\ Registered
     /\ \A i \in 1..Len(loops) :
          /\ BroadcastDecision(i) => loops'[i].reg = modules
          /\ CallMade(i) /\ loops[i].pc = "awaiting" =>
               loops'[i].reg = loops[i].reg]_vars

\* registerModules([module3, module1]) replaced [module1, module2]; a
\* broadcast that began afterwards has called module 3, then module 1.
C26_Witness ==
  /\ regsLeft = MaxRegs - 1
  /\ modules = <<3, 1>>
  /\ cognitiveController[3] /\ cognitiveController[1]
  /\ \E i \in 1..Len(loops) :
       /\ loops[i].pc = "broadcast"
       /\ loops[i].reg = <<3, 1>>
       /\ Len(loops[i].called) = 2

\* The lifecycle state of module m: Stopping from the call of stop() until
\* the awaiting stop() resumes.
Phase(m) ==
  IF running[m] THEN "Running"
  ELSE IF stopWaiters[m] # {} THEN "Stopping" ELSE "Stopped"

\* C27: a module moves Stopped -> Running -> Stopping -> Stopped and in no
\* other way, and a start() issued while it is Stopping neither takes it
\* back to Running nor schedules anything.
C27_Lifecycle ==
  [][\A m \in Modules :
       /\ Phase(m)' # Phase(m) =>
            <<Phase(m), Phase(m)'>> \in
              {<<"Stopped", "Running">>, <<"Running", "Stopping">>,
               <<"Stopping", "Stopped">>}
       /\ Start(m) /\ Phase(m) = "Stopping" =>
            UNCHANGED <<running, timers, intervalId>>]_vars

\* C28: when the onDecision call on a module throws, the entry the
\* broadcast logs for it carries that module's name.
C28_FailureLoggedByModuleName ==
  [][\A i \in 1..Len(loops) : \A p \in loops[i].pending :
       OnDecisionEnd(i, p, TRUE) =>
         loops'[i].errs = loops[i].errs \cup {name[loops[i].reg[p]]}]_vars

\* The properties of an AgentState that the coordinator does not own.
OthersFields == {"inventory", "location", "memory", "social", "actionAwareness"}

\* C29: no step of the coordinator, from the making of a decision to the
\* end of its broadcast and the sleep that follows, changes inventory,
\* location, memory, social or actionAwareness; a cycle leaves in decisions
\* the list it appended to.
C29_CycleWritesOnlyDecisions ==
  [][/\ \A f \in OthersFields : testState'[f] = testState[f]
     /\ decisions' # decisions => testState'.decisions = Present(decisions')]_vars

\* Two cycles have run on a filled AgentState: two decisions, the other
\* properties as they were.
C29_Witness ==
  /\ testState.decisions = Present(decisions) /\ Len(decisions) = 2
  /\ \A f \in OthersFields : testState[f] = TestAgentState[f]
  /\ \E i \in 1..Len(loops) : loops[i].pc = "sleep"

\* C30: the timestamps of the recorded decisions never decrease along the
\* list, the clock never going backwards.
C30_TimestampsNonDecreasing ==
  \A i, j \in 1..Len(decisions) :
    i < j => decisions[i].timestamp <= decisions[j].timestamp

\* Two decisions made one sleep apart.
C30_Witness ==
  /\ Len(decisions) = 2
  /\ decisions[2].timestamp = decisions[1].timestamp + CCUpdateInterval * SecToMs
  /\ now = decisions[2].timestamp

\* The distance in milliseconds between two consecutive ticks of module m.
TickPeriod(m) == Rearm(m, [id |-> Null, due |-> 0]).due

\* C31: a coordinator and a module configured with the same update_interval
\* run with the same period: the coordinator sleeps, between two cycles
\* whose work takes no time, as long as the module waits between two ticks.
C31_SameTimeUnit ==
  [][\A i \in 1..Len(loops) :
       LoopSleep(i) =>
         \A m \in Modules :
           constructed[m] /\ updateInterval[m] = CCUpdateInterval =>
             loops'[i].wake - now = TickPeriod(m)]_vars

\* C32: while the onDecision call of a broadcast at registry position j has
\* not completed, no module at a later position has been called with that
\* decision and the coordinator has started no further cycle: the decision
\* being broadcast is still the last one made.
C32_StuckOnDecisionHaltsCoordinator ==
  \A i \in 1..Len(loops) :
    loops[i].pc = "awaiting" =>
      /\ \A j \in loops[i].pending : Len(loops[i].called) <= j
      /\ Len(decisions) = loops[i].dec

\* C33: at most one repeating timer is armed for a module, and it is the
\* one recorded in the module's interval handle.
C33_AtMostOneTimer ==
  \A m \in Modules :
    /\ Cardinality(timers[m]) <= 1
    /\ \A t \in timers[m] : t.id = intervalId[m]

\* C34: the completion signal a pending stop() waits on is never lost: the
\* promise it awaits is resolved already or is the one the module's
\* resolver still resolves, so that a timer firing can complete it.
C34_StopSignalNeverLost ==
  \A m \in Modules :
    \A p \in stopWaiters[m] : p \in resolved[m] \/ p = stopResolve[m]

\* C35: a stop() on a Running module finds a timer due within one
\* updateInterval of the call; the next firing of a timer of the module,
\* no start() having intervened, resolves the promise the stop() awaits,
\* clears the recorded timer and executes no update().
C35_StopResolvesAtNextFiring ==
  [][\A m \in Modules :
       /\ Stop(m) /\ running[m] =>
            /\ stopResolve[m] \in stopWaiters'[m]
            /\ \E t \in timers[m] : t.due <= now + updateInterval[m]
       /\ \A t \in timers[m] :
            ModuleLoop(m, t) /\ ~running[m] =>
              /\ stopResolve[m] \in resolved'[m]
              /\ \A u \in timers'[m] : u.id # intervalId[m]
              /\ updateCount'[m] = updateCount[m]
              /\ inflight'[m] = inflight[m]]_vars

\* start() at 0, stop() before the first tick: the firing at one interval
\* resolved the stop(), cleared the timer and called no update().
C35_Witness ==
  \E m \in Modules :
    /\ stopDone[m] /\ stopPromise[m] = 1
    /\ now = startedAt[m] + updateInterval[m]
    /\ timers[m] = {} /\ intervalId[m] = Null
    /\ updateCount[m] = 0

\* C36: at most one coordinator loop is active, so no two cycles overlap
\* and no two broadcasts are in progress at once.
C36_AtMostOneLoop ==
  /\ Len(loops) <= 1
  /\ Cardinality({i \in 1..Len(loops) :
                    loops[i].pc \in {"decided", "awaiting", "broadcast"}}) <= 1

\* Loop i begins a cycle in this step: it has reached decision production.
CycleBegun(i) ==
  /\ Len(loops') >= Len(loops) /\ i <= Len(loops')
  /\ loops'[i].pc = "decided"
  /\ i <= Len(loops) => loops[i].pc = "sleep"

C38_DeliveryIgnoresLifecycle ==
  [][\A i \in 1..Len(loops) :
       Len(loops') = Len(loops) =>
         /\ loops[i].pc # "broadcast" /\ loops'[i].pc = "broadcast" =>
              Len(loops'[i].called) = Len(loops'[i].reg)
         /\ CallMade(i) \/ loops'[i].pending # loops[i].pending =>
              UNCHANGED <<running, timers, intervalId, updateCount, inflight>>]_vars

\* A broadcast has reached module 1, which is Stopping, and module 2, which
\* was never started; neither has run an update().
C38_Witness ==
  /\ Phase(1) = "Stopping" /\ Phase(2) = "Stopped"
  /\ updateCount[1] = 0 /\ updateCount[2] = 0
  /\ \E i \in 1..Len(loops) :
       /\ loops[i].pc = "broadcast"
       /\ loops[i].reg = <<1, 2>>
       /\ Len(loops[i].called) = 2

\* C39: once Agent.stop() has resolved, the stop() of every registered
\* module has resolved and every module loop has exited: no stop() is still
\* awaited and no timer of a registered module is armed.
C39_AgentStopWaitsForModules ==
  agent.stopDone =>
    \A m \in Range(modules) : stopWaiters[m] = {} /\ timers[m] = {}

====
